---- MODULE Spec2Model ----
(***************************************************************************)
(* Model of the openmls CLI client: the session orchestrator (User, in     *)
(* cli/src/user.rs) and the persistent key store (PersistentKeyStore, in   *)
(* cli/src/persistent_key_store.rs).                                       *)
(*                                                                         *)
(* HashMaps are functions whose DOMAIN is the set of present keys.         *)
(* Option values are sequences: <<>> is None, <<x>> is Some(x).            *)
(* The MLS engine, the delivery service (Backend) and Conversation are     *)
(* collaborators; their calls appear as operators on a small engine state  *)
(* and as outcomes drawn by the actions.                                   *)
(***************************************************************************)
EXTENDS Integers, Sequences, FiniteSets, TLC

VARIABLES
    groups,        \* User.groups: group id -> Group
    contacts,      \* User.contacts: contact id -> Contact
    pc,            \* position of the orchestrator operation in progress
    cur,           \* arguments / locals of the operation in progress
    batch,         \* update: how many drained artifacts are not yet dispatched
    messages_out,  \* update: the local vector messages_out
    dispatched,    \* update: the messages appended and dropped so far, in order
    transport,     \* what the operation in progress handed to the Backend
    result,        \* what the last operation returned
    read_out,      \* what the last read_msgs returned
    values,        \* PersistentKeyStore.values
    files,         \* key store files on disk: identity label -> content
    saved,         \* per label, what the save that wrote the file was given
    origin,        \* the entities put into the store, as the callers know them
    ksPc,          \* position of the caller of the key store
    ksCur,         \* arguments of the key store call
    ksResult,      \* what the last key store call returned
    lock,          \* the RwLock of PersistentKeyStore.values
    thr            \* per thread, the key store call it is in and how far

userVars == <<groups, contacts, pc, cur, batch, messages_out, dispatched,
              transport, result, read_out>>
ksVars == <<values, files, saved, origin, ksPc, ksCur, ksResult>>
lockVars == <<lock, thr>>
vars == <<groups, contacts, pc, cur, batch, messages_out, dispatched,
          transport, result, read_out, values, files, saved, origin, ksPc,
          ksCur, ksResult, lock, thr>>

\* ------------------------------------------------------------------ bounds
\* Artifacts one recv_msgs call returns at most.
MaxBatch == 3
\* Application messages all conversations hold at most, taken together.
MaxLog == 2

\* ------------------------------------------------------------- the universe
Me == "alice"
Ids == {"alice", "bob", "carol"}
GroupIds == {"g1", "g2"}
Texts == {"hi", "yo"}
\* The group the membership commands (invite, remove) are issued on.
MemberOpGroups == {"g1"}

None == <<>>
Some(x) == <<x>>

\* Contact { username, id, public_keys }   (public_keys: how many are advertised)
Contact(username, id, public_keys) ==
    [username |-> username, id |-> id, public_keys |-> public_keys]

\* The identity's signature key; one key pair per identity.
signature_key(id) == <<"sig", id>>

\* ------------------------------------------------------------ the MLS engine
\* A commit staged by add_members / remove_members, or carried by a message.
NoCommit == [op |-> "none", who |-> ""]
AddCommit(who) == [op |-> "add", who |-> who]
RemoveCommit(who) == [op |-> "remove", who |-> who]

ApplyCommit(ms, c) ==
    IF c.op = "add" THEN ms \cup {c.who}
    ELSE IF c.op = "remove" THEN ms \ {c.who}
    ELSE ms

\* MlsGroup::new_with_group_id: the creator is the only member.
new_with_group_id == [members |-> {Me}, pending |-> NoCommit]
\* MlsGroup::new_from_welcome: the state the welcome describes.
new_from_welcome(w) == [members |-> w.members, pending |-> NoCommit]
\* MlsGroup::add_members / remove_members: stage a commit, membership unchanged.
add_members(mls, who) == [mls EXCEPT !.pending = AddCommit(who)]
remove_members(mls, who) == [mls EXCEPT !.pending = RemoveCommit(who)]
\* MlsGroup::merge_pending_commit: apply the staged commit.
merge_pending_commit(mls) ==
    [members |-> ApplyCommit(mls.members, mls.pending), pending |-> NoCommit]
\* MlsGroup::merge_staged_commit: apply a received commit; a commit of our own
\* that is still pending is discarded.
merge_staged_commit(mls, c) ==
    [members |-> ApplyCommit(mls.members, c), pending |-> NoCommit]

\* ---------------------------------------------------------------- Group
\* Conversation::default and Conversation::add
conversation_default == <<>>
conversation_add(conv, m) == Append(conv, m)

Group(name, mls) ==
    [group_name |-> name, conversation |-> conversation_default, mls_group |-> mls]

\* ------------------------------------------------------ inbound artifacts
\* MlsMessageIn: body is the variant of MlsMessageInBody; ok says whether the
\* engine accepts it (new_from_welcome / process_message).
Artifact(body, gid, ok, kind, text, commit, mergeOk, members) ==
    [body |-> body, gid |-> gid, ok |-> ok, kind |-> kind, text |-> text,
     commit |-> commit, mergeOk |-> mergeOk, members |-> members]

Welcome(gid, ok) ==
    Artifact("Welcome", gid, ok, "none", "", NoCommit, TRUE, {Me, "bob"})
ApplicationMsg(gid, text) ==
    Artifact("PrivateMessage", gid, TRUE, "ApplicationMessage", text, NoCommit, TRUE, {})
ProposalMsg(gid) ==
    Artifact("PublicMessage", gid, TRUE, "ProposalMessage", "", NoCommit, TRUE, {})
ExternalProposalMsg(gid) ==
    Artifact("PublicMessage", gid, TRUE, "ExternalJoinProposalMessage", "", NoCommit, TRUE, {})
CommitMsg(gid, commit, mergeOk) ==
    Artifact("PublicMessage", gid, TRUE, "StagedCommitMessage", "", commit, mergeOk, {})
UnreadableMsg(gid) ==
    Artifact("PrivateMessage", gid, FALSE, "none", "", NoCommit, TRUE, {})
UnsupportedMsg ==
    Artifact("KeyPackage", "", TRUE, "none", "", NoCommit, TRUE, {})

Artifacts ==
    {Welcome("g1", TRUE), Welcome("g2", TRUE), Welcome("g1", FALSE),
     ApplicationMsg("g1", "hi"), ApplicationMsg("g1", "yo"),
     ApplicationMsg("g2", "hi"),
     ProposalMsg("g1"), ExternalProposalMsg("g1"),
     CommitMsg("g1", AddCommit("carol"), TRUE),
     CommitMsg("g1", AddCommit("carol"), FALSE),
     UnreadableMsg("g1"), UnsupportedMsg}

\* ------------------------------------------------------------ bookkeeping
Result(op, status, error) == [op |-> op, status |-> status, error |-> error]
Delivery(what, gid, to) == [what |-> what, gid |-> gid, to |-> to]
NoResult == Result("none", "ok", "")
NoTransport == [delivered |-> <<>>, consumed |-> {}, failed |-> FALSE]
NoCur == [gid |-> "", who |-> "", id |-> "", filter |-> None]
\* The arguments of a key store call: none yet.
NoKsCur == [label |-> "", password |-> None, fresh |-> FALSE, key |-> None,
            value |-> None]
\* The threads that call into the key store, the lock with nobody holding
\* it, and a thread that is in no call.
Threads == {"t1", "t2"}
NoLock == [readers |-> {}, writer |-> None]
NoThread == [op |-> "none", at |-> 0, key |-> None, value |-> None,
             label |-> "", password |-> None, bytes |-> None, snap |-> None,
             todo |-> None, doc |-> None]
\* What update did with a protocol message: "application" (the text was
\* appended to the conversation of gid) or "dropped" (one of the two
\* "Dropping message" diagnostics was logged).
Entry(what, gid, text) == [what |-> what, gid |-> gid, text |-> text]
Out(g, t, p, r) == [groups |-> g, transport |-> t, pc |-> p, result |-> r]

\* ------------------------------------------------------- User: the helpers
\* find_member_index: the member whose credential identity is `name`
\* (the leaf index is the member itself here), or Err("Unknown member").
find_member_index(name, group) ==
    IF name \in group.mls_group.members THEN Some(name) ELSE None

\* Mutant of recipients: a member without contact is skipped and the rest of
\* the members is delivered to.
recipients_skipping_unknown(cs, group) ==
    LET others == {m \in group.mls_group.members :
                       signature_key(Me) # signature_key(m)}
    IN  [ok |-> TRUE, ids |-> {cs[m].id : m \in others \cap DOMAIN cs}]

\* Mutant of recipients: the members are taken as they are once the pending
\* commit is merged.
recipients_after_merge(cs, group) ==
    LET merged == merge_pending_commit(group.mls_group).members
        others == {m \in merged : signature_key(Me) # signature_key(m)}
    IN  IF \E m \in others : m \notin DOMAIN cs
        THEN [ok |-> FALSE, ids |-> {}]
        ELSE [ok |-> TRUE, ids |-> {cs[m].id : m \in others}]

\* recipients: every member whose signature key differs from ours, mapped to
\* its contact's id; panics on a member without contact.
recipients(cs, group) ==
    LET others == {m \in group.mls_group.members :
                       signature_key(Me) # signature_key(m)}
    IN  IF \E m \in others : m \notin DOMAIN cs
        THEN [ok |-> FALSE, ids |-> {}]
        ELSE [ok |-> TRUE, ids |-> {cs[m].id : m \in others}]

\* Mutant of commit_send_proceeds: the delivery error is ignored, as a
\* `let _ = self.backend.send_msg(&msg);` would.
commit_send_proceeds_ignoring_error(sendOk) == TRUE

\* `self.backend.send_msg(&msg)?` in invite and remove: the operation goes
\* on to the local merge only when the delivery returned Ok.
commit_send_proceeds(sendOk) == sendOk

\* ------------------------------------------------------------ create_group
create_group(name) ==
    LET new == (name :> Group(name, new_with_group_id)) @@ groups
    IN  IF name \in DOMAIN groups
        THEN Out(new, NoTransport, "crashed",
                 Result("create_group", "panic", "Group existed already"))
        ELSE Out(new, NoTransport, "returned", Result("create_group", "ok", ""))

\* ---------------------------------------------------------------- send_msg
send_msg(msg, gid, engOk, netOk) ==
    IF gid \notin DOMAIN groups
    THEN Out(groups, NoTransport, "returned", Result("send_msg", "err", "Unknown group"))
    ELSE IF ~engOk
    THEN Out(groups, NoTransport, "returned", Result("send_msg", "err", "create_message"))
    ELSE LET r == recipients(contacts, groups[gid])
         IN  IF ~r.ok
             THEN Out(groups, NoTransport, "crashed",
                      Result("send_msg", "panic", "member without contact"))
             ELSE IF netOk
             THEN Out(groups,
                      [NoTransport EXCEPT
                          !.delivered = <<Delivery("application", gid, r.ids)>>],
                      "returned", Result("send_msg", "ok", ""))
             \* Err(e) => println!(..): the error is printed and Ok(()) returned
             ELSE Out(groups, [NoTransport EXCEPT !.failed = TRUE],
                      "returned", Result("send_msg", "ok", ""))

\* ------------------------------------------------------------------ invite
\* Lines 329-374: up to and including the delivery of the commit.
invite(c, name, gid, kpOk, engOk, netOk) ==
    IF c = None
    THEN Out(groups, NoTransport, "returned", Result("invite", "err", "No contact"))
    ELSE IF ~kpOk
    THEN Out(groups, NoTransport, "crashed",
             Result("invite", "panic", "consume_key_package"))
    ELSE LET t0 == [NoTransport EXCEPT !.consumed = {c[1].id}] IN
    IF gid \notin DOMAIN groups
    THEN Out(groups, t0, "returned", Result("invite", "err", "No group"))
    ELSE IF ~engOk
    THEN Out(groups, t0, "returned", Result("invite", "err", "Failed to add member"))
    ELSE LET staged == [groups EXCEPT
                           ![gid].mls_group = add_members(@, c[1].id)]
             r == recipients(contacts, staged[gid])
         IN  IF ~r.ok
             THEN Out(staged, t0, "crashed",
                      Result("invite", "panic", "member without contact"))
             ELSE IF commit_send_proceeds(netOk)
             THEN Out(staged,
                      [t0 EXCEPT !.failed = ~netOk,
                                 !.delivered = IF netOk
                                               THEN <<Delivery("commit", gid, r.ids)>>
                                               ELSE <<>>],
                      "invite_merge", Result("invite", "running", ""))
             ELSE Out(staged, [t0 EXCEPT !.failed = TRUE], "returned",
                      Result("invite", "err", "send_msg"))

\* ------------------------------------------------------------------ remove
\* Lines 393-423: up to and including the delivery of the commit.
remove(name, gid, engOk, netOk) ==
    IF gid \notin DOMAIN groups
    THEN Out(groups, NoTransport, "returned", Result("remove", "err", "No group"))
    ELSE IF find_member_index(name, groups[gid]) = None
    \* find_member_index(..).unwrap()
    THEN Out(groups, NoTransport, "crashed",
             Result("remove", "panic", "Unknown member"))
    ELSE IF ~engOk
    THEN Out(groups, NoTransport, "returned",
             Result("remove", "err", "Failed to remove member"))
    ELSE LET idx == find_member_index(name, groups[gid])[1]
             staged == [groups EXCEPT
                           ![gid].mls_group = remove_members(@, idx)]
             r == recipients(contacts, staged[gid])
         IN  IF ~r.ok
             THEN Out(staged, NoTransport, "crashed",
                      Result("remove", "panic", "member without contact"))
             ELSE IF commit_send_proceeds(netOk)
             THEN Out(staged,
                      [NoTransport EXCEPT
                          !.failed = ~netOk,
                          !.delivered = IF netOk
                                        THEN <<Delivery("commit", gid, r.ids)>>
                                        ELSE <<>>],
                      "remove_merge", Result("remove", "running", ""))
             ELSE Out(staged, [NoTransport EXCEPT !.failed = TRUE], "returned",
                      Result("remove", "err", "send_msg"))

\* -------------------------------------------------------------- join_group
\* The group is inserted under the welcome's group id whatever was there; an
\* old entry makes the call return Err("Overrode the group ..").
join_group(w) ==
    IF ~w.ok
    THEN [groups |-> groups, status |-> "panic", error |-> "Failed to create MlsGroup"]
    ELSE LET new == (w.gid :> Group(w.gid, new_from_welcome(w))) @@ groups
         IN  IF w.gid \in DOMAIN groups
             THEN [groups |-> new, status |-> "err", error |-> "Overrode the group"]
             ELSE [groups |-> new, status |-> "ok", error |-> ""]

\* ------------------------------------------------------------------ update
\* Mutant of filter_matches: the caller's filter is not applied.
filter_matches_any(filter, group) == TRUE

\* The filter of the ApplicationMessage arm (line 217).
filter_matches(filter, group) ==
    filter = None \/ filter[1] = group.group_name

\* The closure process_protocol_message (lines 187-235) on one message.
process_protocol_message(m, filter) ==
    LET same(res, log) ==
            [groups |-> groups, messages_out |-> messages_out,
             dispatched |-> log, res |-> res]
        drop == Append(dispatched, Entry("dropped", "", ""))
    IN
    IF m.gid \notin DOMAIN groups THEN same("err", drop)
    ELSE IF ~m.ok THEN same("err", drop)
    ELSE IF m.kind = "ApplicationMessage"
    THEN [groups |-> [groups EXCEPT ![m.gid].conversation =
                                        conversation_add(@, m.text)],
          messages_out |-> IF filter_matches(filter, groups[m.gid])
                           THEN Append(messages_out, m.text)
                           ELSE messages_out,
          dispatched |-> Append(dispatched, Entry("application", m.gid, m.text)),
          res |-> "ok"]
    ELSE IF m.kind = "StagedCommitMessage"
    THEN IF m.mergeOk
         THEN [groups |-> [groups EXCEPT ![m.gid].mls_group =
                                             merge_staged_commit(@, m.commit)],
               messages_out |-> messages_out, dispatched |-> dispatched,
               res |-> "ok"]
         ELSE same("err", dispatched)
    ELSE same("ok", dispatched)

\* Mutant of dispatch_after_process: the closure's error is propagated with
\* `?` and ends update.
dispatch_after_process_propagating(res) == IF res = "err" THEN "abort" ELSE "next"

\* The dispatch arms for PrivateMessage and PublicMessage (lines 247-256):
\* `if process_protocol_message(..).is_err() { continue; }`: the loop goes to
\* the next message whatever the closure returned.
dispatch_after_process(res) == "next"

\* What Backend::list_clients returns per client: ClientInfo { client_name,
\* id, key_packages } (key_packages: how many are advertised).
ClientInfo(client_name, id, key_packages) ==
    [client_name |-> client_name, id |-> id, key_packages |-> key_packages]

\* Mutant of refresh_contacts: the key packages of a client already in the
\* directory are added to the ones it holds (the fields are merged).
RECURSIVE refresh_contacts_accumulating(_, _)
refresh_contacts_accumulating(cs, clients) ==
    IF clients = <<>> THEN cs
    ELSE LET c == Head(clients)
             held == IF c.id \in DOMAIN cs THEN cs[c.id].public_keys ELSE 0
         IN  refresh_contacts_accumulating(
                 IF c.id # Me
                 THEN (c.id :> Contact(c.client_name, c.id, held + c.key_packages)) @@ cs
                 ELSE cs,
                 Tail(clients))

\* Mutant of refresh_contacts: the local identity is not skipped.
RECURSIVE refresh_contacts_including_self(_, _)
refresh_contacts_including_self(cs, clients) ==
    IF clients = <<>> THEN cs
    ELSE LET c == Head(clients)
         IN  refresh_contacts_including_self(
                 (c.id :> Contact(c.client_name, c.id, c.key_packages)) @@ cs,
                 Tail(clients))

\* The contact refresh (lines 262-281): for every listed client other than
\* ourselves, in the order of the list, contacts.insert(c.id, Contact {..}).
RECURSIVE refresh_contacts(_, _)
refresh_contacts(cs, clients) ==
    IF clients = <<>> THEN cs
    ELSE LET c == Head(clients)
         IN  refresh_contacts(
                 IF c.id # Me
                 THEN (c.id :> Contact(c.client_name, c.id, c.key_packages)) @@ cs
                 ELSE cs,
                 Tail(clients))

\* The clients `listed`, each under its id as name with one key package, as a
\* list.
RECURSIVE ClientList(_)
ClientList(listed) ==
    IF listed = {} THEN <<>>
    ELSE LET c == CHOOSE x \in listed : TRUE
         IN  <<ClientInfo(c, c, 1)>> \o ClientList(listed \ {c})

\* ------------------------------------------------------------------ actions
EmptyMap == [x \in {} |-> x]

RECURSIVE TotalLog(_, _)
TotalLog(gs, ids) ==
    IF ids = {} THEN 0
    ELSE LET g == CHOOSE x \in ids : TRUE
         IN  Len(gs[g].conversation) + TotalLog(gs, ids \ {g})

Init ==
    /\ groups = EmptyMap
    /\ contacts = EmptyMap
    /\ pc = "idle"
    /\ cur = NoCur
    /\ batch = 0
    /\ messages_out = <<>>
    /\ dispatched = <<>>
    /\ transport = NoTransport
    /\ result = NoResult
    /\ values = EmptyMap
    /\ files = EmptyMap
    /\ saved = EmptyMap
    /\ origin = [known |-> TRUE, map |-> EmptyMap]
    /\ ksPc = "idle"
    /\ ksCur = NoKsCur
    /\ ksResult = NoResult
    /\ read_out = None
    /\ lock = NoLock
    /\ thr = [t \in Threads |-> NoThread]

Apply(out) ==
    /\ groups' = out.groups
    /\ transport' = out.transport
    /\ pc' = out.pc
    /\ result' = out.result

\* The locals of update are gone once another operation runs.
NoUpdateLocals ==
    /\ batch' = 0
    /\ messages_out' = <<>>
    /\ dispatched' = <<>>

\* The command loop of the client: the caller has taken what the operation
\* returned and reads the next command.
Prompt ==
    /\ pc = "returned"
    /\ pc' = "idle"
    /\ result' = NoResult
    /\ transport' = NoTransport
    /\ cur' = NoCur
    /\ NoUpdateLocals
    /\ UNCHANGED <<groups, contacts>>
    /\ UNCHANGED <<read_out, ksVars, lockVars>>

CreateGroup ==
    /\ pc = "idle"
    /\ \E name \in GroupIds :
         /\ Apply(create_group(name))
         /\ cur' = [NoCur EXCEPT !.gid = name]
    /\ NoUpdateLocals
    /\ UNCHANGED contacts
    /\ UNCHANGED <<read_out, ksVars, lockVars>>

SendMsg ==
    /\ pc = "idle"
    /\ \E gid \in GroupIds, engOk \in BOOLEAN, netOk \in BOOLEAN :
         /\ Apply(send_msg("hi", gid, engOk, netOk))
         /\ cur' = [NoCur EXCEPT !.gid = gid]
    /\ NoUpdateLocals
    /\ UNCHANGED contacts
    /\ UNCHANGED <<read_out, ksVars, lockVars>>

\* invite, lines 329-374.  contacts.values().find(|c| c.username == name)
Invite ==
    /\ pc = "idle"
    /\ \E name \in Ids, gid \in MemberOpGroups, kpOk \in BOOLEAN, engOk \in BOOLEAN,
          netOk \in BOOLEAN :
         LET found == {c \in DOMAIN contacts : contacts[c].username = name}
         IN  \E c \in (IF found = {} THEN {None}
                       ELSE {Some(contacts[x]) : x \in found}) :
                /\ Apply(invite(c, name, gid, kpOk, engOk, netOk))
                /\ cur' = [NoCur EXCEPT !.gid = gid, !.who = name,
                                        !.id = IF c = None THEN "" ELSE c[1].id]
    /\ NoUpdateLocals
    /\ UNCHANGED contacts
    /\ UNCHANGED <<read_out, ksVars, lockVars>>

\* invite, lines 376-381: merge_pending_commit(..).expect(..)
InviteMerge ==
    /\ pc = "invite_merge"
    /\ \E mergeOk \in BOOLEAN :
         IF mergeOk
         THEN /\ groups' = [groups EXCEPT ![cur.gid].mls_group =
                                               merge_pending_commit(@)]
              /\ pc' = "invite_welcome"
              /\ result' = result
              /\ cur' = cur
         ELSE /\ groups' = groups
              /\ pc' = "crashed"
              /\ result' = Result("invite", "panic", "error merging pending commit")
              /\ cur' = cur
    /\ UNCHANGED <<contacts, batch, messages_out, dispatched, transport>>
    /\ UNCHANGED <<read_out, ksVars, lockVars>>

\* invite, lines 383-389: send_welcome(..).expect(..)
InviteWelcome ==
    /\ pc = "invite_welcome"
    /\ \E netOk \in BOOLEAN :
         IF netOk
         THEN /\ transport' = [transport EXCEPT !.delivered =
                     Append(@, Delivery("welcome", cur.gid, {cur.id}))]
              /\ pc' = "returned"
              /\ result' = Result("invite", "ok", "")
         ELSE /\ transport' = [transport EXCEPT !.failed = TRUE]
              /\ pc' = "crashed"
              /\ result' = Result("invite", "panic", "Error sending Welcome message")
    /\ cur' = cur
    /\ UNCHANGED <<groups, contacts, batch, messages_out, dispatched>>
    /\ UNCHANGED <<read_out, ksVars, lockVars>>

\* remove, lines 393-423.  The engine refuses to remove the caller's own leaf,
\* so the names tried are the other identities.
Remove ==
    /\ pc = "idle"
    /\ \E name \in Ids \ {Me}, gid \in MemberOpGroups, engOk \in BOOLEAN,
          netOk \in BOOLEAN :
         /\ Apply(remove(name, gid, engOk, netOk))
         /\ cur' = [NoCur EXCEPT !.gid = gid, !.who = name]
    /\ NoUpdateLocals
    /\ UNCHANGED contacts
    /\ UNCHANGED <<read_out, ksVars, lockVars>>

\* remove, lines 425-432: merge_pending_commit(..).expect(..)
RemoveMerge ==
    /\ pc = "remove_merge"
    /\ \E mergeOk \in BOOLEAN :
         IF mergeOk
         THEN /\ groups' = [groups EXCEPT ![cur.gid].mls_group =
                                               merge_pending_commit(@)]
              /\ pc' = "returned"
              /\ result' = Result("remove", "ok", "")
         ELSE /\ groups' = groups
              /\ pc' = "crashed"
              /\ result' = Result("remove", "panic", "error merging pending commit")
    /\ cur' = cur
    /\ UNCHANGED <<contacts, batch, messages_out, dispatched, transport>>
    /\ UNCHANGED <<read_out, ksVars, lockVars>>

\* update, lines 182-239: recv_msgs(self)? returns the queued artifacts.  The
\* model keeps how many are left; what each one is is drawn when the loop
\* reaches it.
UpdateBegin ==
    /\ pc = "idle"
    /\ \E filter \in {None} \cup {Some(g) : g \in GroupIds}, recvOk \in BOOLEAN,
          n \in 0..MaxBatch :
         /\ cur' = [NoCur EXCEPT !.filter = filter]
         /\ IF recvOk
            THEN /\ batch' = n
                 /\ pc' = "update_loop"
                 /\ result' = Result("update", "running", "")
            ELSE /\ batch' = 0
                 /\ pc' = "returned"
                 /\ result' = Result("update", "err", "recv_msgs")
    /\ messages_out' = <<>>
    /\ dispatched' = <<>>
    /\ transport' = NoTransport
    /\ UNCHANGED <<groups, contacts>>
    /\ UNCHANGED <<read_out, ksVars, lockVars>>

\* update, lines 239-259: one turn of the dispatch loop on the next artifact.
UpdateDispatch ==
    /\ pc = "update_loop"
    /\ batch > 0
    /\ \E m \in Artifacts :
       /\ m.kind = "ApplicationMessage" => TotalLog(groups, DOMAIN groups) < MaxLog
       /\ batch' = batch - 1
       /\ IF m.body = "Welcome"
          THEN LET j == join_group(m) IN
               /\ groups' = j.groups
               /\ messages_out' = messages_out
               /\ IF j.status = "ok"
                  THEN /\ pc' = pc
                       /\ result' = result
                       /\ dispatched' = dispatched
                  ELSE /\ pc' = IF j.status = "panic" THEN "crashed" ELSE "returned"
                       /\ result' = Result("update", j.status, j.error)
                       /\ dispatched' = dispatched
          ELSE IF m.body \in {"PrivateMessage", "PublicMessage"}
          THEN LET p == process_protocol_message(m, cur.filter) IN
               /\ groups' = p.groups
               /\ messages_out' = p.messages_out
               /\ dispatched' = p.dispatched
               /\ IF dispatch_after_process(p.res) = "next"
                  THEN pc' = pc /\ result' = result
                  ELSE pc' = "returned" /\ result' = Result("update", "err", "error")
          ELSE /\ pc' = "crashed"
               /\ result' = Result("update", "panic", "Unsupported message type")
               /\ UNCHANGED <<groups, messages_out, dispatched>>
    /\ UNCHANGED <<contacts, cur, transport>>
    /\ UNCHANGED <<read_out, ksVars, lockVars>>

\* update, lines 262-288: list_clients()? and the contact refresh.
UpdateRefresh ==
    /\ pc = "update_loop"
    /\ batch = 0
    /\ \E listOk \in BOOLEAN, listed \in SUBSET Ids :
         IF listOk
         THEN /\ contacts' = refresh_contacts(contacts, ClientList(listed))
              /\ result' = Result("update", "ok", "")
         ELSE /\ contacts' = contacts
              /\ result' = Result("update", "err", "list_clients")
    /\ pc' = "returned"
    /\ UNCHANGED <<groups, cur, batch, messages_out, dispatched, transport>>
    /\ UNCHANGED <<read_out, ksVars, lockVars>>

Next ==
    \/ Prompt
    \/ CreateGroup
    \/ SendMsg
    \/ Invite
    \/ InviteMerge
    \/ InviteWelcome
    \/ Remove
    \/ RemoveMerge
    \/ UpdateBegin
    \/ UpdateDispatch
    \/ UpdateRefresh

Spec == Init /\ [][Next]_vars

\* ------------------------------------------------- the Contact Directory
\* The refresh step of update on client lists whose entries differ in every
\* field: an update with nothing in the inbox, from list_clients()? on.
MaxClients == 2
MaxKeyPackages == 3
ClientNames == {"bob", "robert"}
ClientInfos ==
    {ClientInfo(n, id, k) : n \in ClientNames, id \in Ids, k \in 1..MaxKeyPackages}
ClientLists == UNION {[1..n -> ClientInfos] : n \in 0..MaxClients}

\* update, lines 239-288, with an empty inbox.
RefreshContacts ==
    /\ pc = "idle"
    /\ \E listOk \in BOOLEAN, clients \in ClientLists :
         IF listOk
         THEN /\ contacts' = refresh_contacts(contacts, clients)
              /\ result' = Result("update", "ok", "")
         ELSE /\ contacts' = contacts
              /\ result' = Result("update", "err", "list_clients")
    /\ pc' = "returned"
    /\ cur' = NoCur
    /\ transport' = NoTransport
    /\ NoUpdateLocals
    /\ UNCHANGED groups
    /\ UNCHANGED <<read_out, ksVars, lockVars>>

NextDirectory ==
    \/ Prompt
    \/ RefreshContacts

SpecDirectory == Init /\ [][NextDirectory]_vars

\* ---------------------------------------------------------------- read_msgs
\* Conversation::get(last_n): the last last_n messages, or all of them when
\* there are fewer.
conversation_get(conv, last_n) ==
    LET n == Len(conv)
        start == IF last_n > n THEN 0 ELSE n - last_n
    IN  Some(SubSeq(conv, start + 1, n))

\* The number of messages read_msgs asks the conversation for.
ReadLimit == 100

\* Mutant of read_msgs: the whole log is returned.
read_msgs_whole_log(gs, group_name) ==
    IF group_name \notin DOMAIN gs
    THEN [status |-> "err", error |-> "Unknown group", messages |-> None]
    ELSE [status |-> "ok", error |-> "",
          messages |-> Some(gs[group_name].conversation)]

\* read_msgs (lines 143-150)
read_msgs(gs, group_name) ==
    IF group_name \notin DOMAIN gs
    THEN [status |-> "err", error |-> "Unknown group", messages |-> None]
    ELSE [status |-> "ok", error |-> "",
          messages |-> conversation_get(gs[group_name].conversation, ReadLimit)]

\* The longest conversation read.
MaxConv == 150

\* A session whose conversation holds n messages; the i-th message appended
\* is written i.
GroupWithLog(name, n) ==
    [group_name |-> name, conversation |-> [i \in 1..n |-> i],
     mls_group |-> new_with_group_id]

\* The client after update has appended n messages to the log of g1.
InitRead ==
    /\ \E n \in 0..MaxConv : groups = ("g1" :> GroupWithLog("g1", n))
    /\ contacts = EmptyMap
    /\ pc = "idle"
    /\ cur = NoCur
    /\ batch = 0
    /\ messages_out = <<>>
    /\ dispatched = <<>>
    /\ transport = NoTransport
    /\ result = NoResult
    /\ read_out = None
    /\ values = EmptyMap
    /\ files = EmptyMap
    /\ saved = EmptyMap
    /\ origin = [known |-> TRUE, map |-> EmptyMap]
    /\ ksPc = "idle"
    /\ ksCur = NoKsCur
    /\ ksResult = NoResult
    /\ lock = NoLock
    /\ thr = [t \in Threads |-> NoThread]

ReadMsgs ==
    /\ pc = "idle"
    /\ \E group_name \in GroupIds :
         LET r == read_msgs(groups, group_name) IN
         /\ result' = Result("read_msgs", r.status, r.error)
         /\ read_out' = r.messages
         /\ cur' = [NoCur EXCEPT !.gid = group_name]
    /\ pc' = "returned"
    /\ transport' = NoTransport
    /\ NoUpdateLocals
    /\ UNCHANGED <<groups, contacts>>
    /\ UNCHANGED <<ksVars, lockVars>>

NextRead ==
    \/ Prompt
    \/ ReadMsgs

SpecRead == InitRead /\ [][NextRead]_vars

\* =================================================== PersistentKeyStore
\* Bytes and text are sequences of numbers 0..255 (text: its ASCII codes).
Keys == {<<1>>, <<250, 251>>, <<77, 97, 110>>}
\* The MlsEntity values stored: byte vectors, which serde_json writes as
\* arrays of numbers.
Entities == {<<7>>, <<255, 16>>}
Labels == {"alice"}
Passwords == {None, Some("pw"), Some("other")}

\* ------------------------------------------------------------- serde_json
RECURSIVE Digits(_)
Digits(n) == IF n < 10 THEN <<48 + n>> ELSE Digits(n \div 10) \o <<48 + (n % 10)>>

RECURSIVE JoinNumbers(_)
JoinNumbers(v) ==
    IF Len(v) = 0 THEN <<>>
    ELSE IF Len(v) = 1 THEN Digits(v[1])
    ELSE Digits(v[1]) \o <<44>> \o JoinNumbers(Tail(v))

\* serde_json::to_vec of a byte vector: "[7]", "[255,16]".
to_vec(v) == <<91>> \o JoinNumbers(v) \o <<93>>

IsWs(c) == c \in {32, 9, 10, 13}
IsDigit(c) == c \in 48..57

RECURSIVE SkipWs(_, _)
SkipWs(b, i) == IF i <= Len(b) /\ IsWs(b[i]) THEN SkipWs(b, i + 1) ELSE i

RECURSIVE ParseDigits(_, _, _)
ParseDigits(b, i, acc) ==
    IF i <= Len(b) /\ IsDigit(b[i])
    THEN IF acc * 10 + (b[i] - 48) > 255
         THEN [ok |-> FALSE, val |-> 0, next |-> i]
         ELSE ParseDigits(b, i + 1, acc * 10 + (b[i] - 48))
    ELSE [ok |-> TRUE, val |-> acc, next |-> i]

\* One JSON number that fits u8, starting at b[i].
ParseNumber(b, i) ==
    IF i > Len(b) \/ ~IsDigit(b[i]) THEN [ok |-> FALSE, val |-> 0, next |-> i]
    ELSE IF b[i] = 48
    THEN IF i + 1 <= Len(b) /\ IsDigit(b[i + 1])
         THEN [ok |-> FALSE, val |-> 0, next |-> i]
         ELSE [ok |-> TRUE, val |-> 0, next |-> i + 1]
    ELSE ParseDigits(b, i, 0)

\* After the closing bracket only whitespace may follow.
ParseEnd(b, i, acc) == IF SkipWs(b, i) > Len(b) THEN Some(acc) ELSE None

RECURSIVE ParseElems(_, _, _)
ParseElems(b, i, acc) ==
    LET n == ParseNumber(b, i) IN
    IF ~n.ok THEN None
    ELSE LET j == SkipWs(b, n.next) IN
         IF j > Len(b) THEN None
         ELSE IF b[j] = 93 THEN ParseEnd(b, j + 1, Append(acc, n.val))
         ELSE IF b[j] = 44
         THEN ParseElems(b, SkipWs(b, j + 1), Append(acc, n.val))
         ELSE None

\* serde_json::from_slice::<Vec<u8>>(..).ok()
from_slice(b) ==
    LET i == SkipWs(b, 1) IN
    IF i > Len(b) \/ b[i] # 91 THEN None
    ELSE LET j == SkipWs(b, i + 1) IN
         IF j <= Len(b) /\ b[j] = 93 THEN ParseEnd(b, j + 1, <<>>)
         ELSE ParseElems(b, j, <<>>)

\* ------------------------------------------------------------------ base64
\* The standard alphabet A-Z a-z 0-9 + / as ASCII codes, and '=' for padding.
Alphabet ==
    [i \in 0..63 |->
        IF i < 26 THEN 65 + i
        ELSE IF i < 52 THEN 97 + (i - 26)
        ELSE IF i < 62 THEN 48 + (i - 52)
        ELSE IF i = 62 THEN 43 ELSE 47]
Pad == 61

\* Mutant of base64_encode: the padding is left out.
RECURSIVE base64_encode_unpadded(_)
base64_encode_unpadded(b) ==
    IF Len(b) = 0 THEN <<>>
    ELSE IF Len(b) = 1
    THEN <<Alphabet[b[1] \div 4], Alphabet[(b[1] % 4) * 16]>>
    ELSE IF Len(b) = 2
    THEN <<Alphabet[b[1] \div 4], Alphabet[(b[1] % 4) * 16 + (b[2] \div 16)],
           Alphabet[(b[2] % 16) * 4]>>
    ELSE <<Alphabet[b[1] \div 4], Alphabet[(b[1] % 4) * 16 + (b[2] \div 16)],
           Alphabet[(b[2] % 16) * 4 + (b[3] \div 64)], Alphabet[b[3] % 64]>>
         \o base64_encode_unpadded(SubSeq(b, 4, Len(b)))

\* base64::encode: three bytes give four symbols; the last group is padded.
RECURSIVE base64_encode(_)
base64_encode(b) ==
    IF Len(b) = 0 THEN <<>>
    ELSE IF Len(b) = 1
    THEN <<Alphabet[b[1] \div 4], Alphabet[(b[1] % 4) * 16], Pad, Pad>>
    ELSE IF Len(b) = 2
    THEN <<Alphabet[b[1] \div 4], Alphabet[(b[1] % 4) * 16 + (b[2] \div 16)],
           Alphabet[(b[2] % 16) * 4], Pad>>
    ELSE <<Alphabet[b[1] \div 4], Alphabet[(b[1] % 4) * 16 + (b[2] \div 16)],
           Alphabet[(b[2] % 16) * 4 + (b[3] \div 64)], Alphabet[b[3] % 64]>>
         \o base64_encode(SubSeq(b, 4, Len(b)))

IsSymbol(c) == \E i \in 0..63 : Alphabet[i] = c
SymbolValue(c) == CHOOSE i \in 0..63 : Alphabet[i] = c

\* Full groups of four symbols.
RECURSIVE DecodeGroups(_)
DecodeGroups(t) ==
    IF Len(t) = 0 THEN <<>>
    ELSE LET a == SymbolValue(t[1])
             b == SymbolValue(t[2])
             c == SymbolValue(t[3])
             d == SymbolValue(t[4])
         IN  <<a * 4 + (b \div 16), (b % 16) * 16 + (c \div 4), (c % 4) * 64 + d>>
             \o DecodeGroups(SubSeq(t, 5, Len(t)))

\* base64::decode: None for a wrong length, a symbol outside the alphabet,
\* misplaced padding or non-zero trailing bits.
base64_decode(t) ==
    IF Len(t) % 4 # 0 THEN None
    ELSE IF Len(t) = 0 THEN Some(<<>>)
    ELSE LET n == Len(t)
             pads == IF t[n] # Pad THEN 0 ELSE IF t[n - 1] # Pad THEN 1 ELSE 2
             data == SubSeq(t, 1, n - pads)
         IN  IF \E i \in 1..Len(data) : ~IsSymbol(data[i]) THEN None
             ELSE IF pads = 0 THEN Some(DecodeGroups(data))
             ELSE LET full == SubSeq(data, 1, n - 4)
                      a == SymbolValue(data[n - 3])
                      b == SymbolValue(data[n - 2])
                  IN  IF pads = 2
                      THEN IF b % 16 # 0 THEN None
                           ELSE Some(DecodeGroups(full) \o <<a * 4 + (b \div 16)>>)
                      ELSE LET c == SymbolValue(data[n - 1])
                           IN  IF c % 4 # 0 THEN None
                               ELSE Some(DecodeGroups(full)
                                         \o <<a * 4 + (b \div 16),
                                              (b % 16) * 16 + (c \div 4)>>)

\* ------------------------------------------------------- store, read, delete
\* Mutant of MapInsert: an entry that is there is kept, as
\* `entry(k).or_insert(v)` would.
MapInsert_keeping_old(m, k, v) == m @@ (k :> v)

\* HashMap::insert and HashMap::remove
MapInsert(m, k, v) == (k :> v) @@ m
MapRemove(m, k) == [x \in (DOMAIN m) \ {k} |-> m[x]]

\* read: None when the key is absent or the bytes do not deserialize.
read(vals, k) == IF k \in DOMAIN vals THEN from_slice(vals[k]) ELSE None

\* ------------------------------------------------------------ save and load
\* SerializableKeyStore filled by the loop of save_to_file / ciphered_save.
serialize_store(vals) ==
    [t \in {base64_encode(k) : k \in DOMAIN vals} |->
        base64_encode(vals[CHOOSE k \in DOMAIN vals : base64_encode(k) = t])]

\* A file: "json" is the pretty-printed SerializableKeyStore, "cocoon" the
\* encrypted envelope of `form` ("json", "not_json" or "not_utf8") under
\* `password`, "garbage" anything else.
FileContent(kind, password, form, doc) ==
    [kind |-> kind, password |-> password, form |-> form, doc |-> doc]

\* The entries of a parsed document that decode.
Decodable(doc) ==
    {t \in DOMAIN doc : base64_decode(t) # None /\ base64_decode(doc[t]) # None}

\* Mutant of insert_entries: the map is emptied before the entries of the
\* file are inserted.
insert_entries_replacing(vals, doc, ts) ==
    LET ks == {base64_decode(t)[1] : t \in ts}
    IN  [k \in ks |->
            base64_decode(doc[CHOOSE t \in ts : base64_decode(t)[1] = k])[1]]

\* ks_map after `ks_map.insert(decode(key).unwrap(), decode(value).unwrap())`
\* for the entries ts of doc.
insert_entries(vals, doc, ts) ==
    LET ks == {base64_decode(t)[1] : t \in ts}
    IN  [k \in (DOMAIN vals) \cup ks |->
            IF k \in ks
            THEN base64_decode(doc[CHOOSE t \in ts : base64_decode(t)[1] = k])[1]
            ELSE vals[k]]

\* The outcomes of the insertion loop of load_from_file / ciphered_load over
\* the parsed document: the HashMap is walked in an arbitrary order and the
\* first entry that does not decode panics (unwrap), after the entries walked
\* before it were inserted.
load_entries(vals, doc) ==
    IF Decodable(doc) = DOMAIN doc
    THEN {[values |-> insert_entries(vals, doc, DOMAIN doc), status |-> "ok",
           error |-> ""]}
    ELSE {[values |-> insert_entries(vals, doc, ts), status |-> "panic",
           error |-> "base64 decode unwrap"] : ts \in SUBSET Decodable(doc)}

Fails(vals, status, error) == {[values |-> vals, status |-> status, error |-> error]}

\* load_from_file (lines 144-159)
load_from_file(vals, file) ==
    IF file.kind = "json" THEN load_entries(vals, file.doc)
    ELSE Fails(vals, "err", "serde_json")

\* ciphered_load (lines 121-142)
ciphered_load(vals, file, password) ==
    IF file.kind # "cocoon" \/ file.password # Some(password)
    THEN Fails(vals, "err", "Error parsing user keystore with cocoon")
    ELSE IF file.form = "not_utf8" THEN Fails(vals, "panic", "Found invalid UTF-8")
    ELSE IF file.form = "not_json" THEN Fails(vals, "err", "serde_json")
    ELSE load_entries(vals, file.doc)

\* load (lines 161-171)
load(vals, fs, label, password) ==
    IF label \notin DOMAIN fs THEN Fails(vals, "err", "File::open")
    ELSE IF password = None THEN load_from_file(vals, fs[label])
    ELSE ciphered_load(vals, fs[label], password[1])

\* save (lines 75-119): the file the call leaves behind.
save(vals, password) ==
    IF password = None
    THEN FileContent("json", None, "json", serialize_store(vals))
    ELSE FileContent("cocoon", password, "json", serialize_store(vals))

\* Files that something other than save left on disk.
BadText == <<33, 33, 33, 33>>
ForeignFiles ==
    LET good == base64_encode(<<1>>) :> base64_encode(to_vec(<<7>>))
        badKey == (BadText :> base64_encode(to_vec(<<7>>))) @@ good
        badValue == (base64_encode(<<250, 251>>) :> BadText) @@ good
    IN  {FileContent("garbage", None, "", EmptyMap),
         FileContent("json", None, "json", badKey),
         FileContent("json", None, "json", badValue),
         FileContent("cocoon", Some("pw"), "json", badKey),
         FileContent("cocoon", Some("pw"), "not_json", EmptyMap),
         FileContent("cocoon", Some("pw"), "not_utf8", EmptyMap)}

\* --------------------------------------------------------- key store actions
KsReturn(op, status, error) ==
    /\ ksResult' = Result(op, status, error)
    /\ ksPc' = IF status = "panic" THEN "crashed" ELSE "returned"

\* The caller has taken the result.
KsPrompt ==
    /\ ksPc = "returned"
    /\ ksPc' = "idle"
    /\ ksResult' = NoResult
    /\ ksCur' = NoKsCur
    /\ UNCHANGED <<values, files, saved, origin>>
    /\ UNCHANGED <<userVars, lockVars>>

\* PersistentKeyStore::default(): the client starts again with an empty store.
KsNew ==
    /\ ksPc = "idle"
    /\ values' = EmptyMap
    /\ origin' = [known |-> TRUE, map |-> EmptyMap]
    /\ ksCur' = NoKsCur
    /\ KsReturn("default", "ok", "")
    /\ UNCHANGED <<files, saved>>
    /\ UNCHANGED <<userVars, lockVars>>

\* store (lines 32-41)
KsStore ==
    /\ ksPc = "idle"
    /\ \E k \in Keys, v \in Entities, serOk \in BOOLEAN :
         /\ ksCur' = [NoKsCur EXCEPT !.key = Some(k), !.value = Some(v)]
         /\ IF serOk
            THEN /\ values' = MapInsert(values, k, to_vec(v))
                 /\ origin' = [origin EXCEPT !.map = MapInsert(@, k, v)]
                 /\ KsReturn("store", "ok", "")
            ELSE /\ UNCHANGED <<values, origin>>
                 /\ KsReturn("store", "err", "SerializationError")
    /\ UNCHANGED <<files, saved>>
    /\ UNCHANGED <<userVars, lockVars>>

\* delete (lines 62-67)
KsDelete ==
    /\ ksPc = "idle"
    /\ \E k \in Keys :
         /\ ksCur' = [NoKsCur EXCEPT !.key = Some(k)]
         /\ values' = MapRemove(values, k)
         /\ origin' = [origin EXCEPT !.map = MapRemove(@, k)]
    /\ KsReturn("delete", "ok", "")
    /\ UNCHANGED <<files, saved>>
    /\ UNCHANGED <<userVars, lockVars>>

\* save (lines 109-119); File::create may fail.
KsSave ==
    /\ ksPc = "idle"
    /\ \E label \in Labels, password \in Passwords, createOk \in BOOLEAN :
         /\ ksCur' = [NoKsCur EXCEPT !.label = label, !.password = password]
         /\ IF createOk
            THEN /\ files' = MapInsert(files, label, save(values, password))
                 /\ saved' = MapInsert(saved, label,
                                 [password |-> password, values |-> values,
                                  origin |-> origin])
                 /\ KsReturn("save", "ok", "")
            ELSE /\ UNCHANGED <<files, saved>>
                 /\ KsReturn("save", "err", "File::create")
    /\ UNCHANGED <<values, origin>>
    /\ UNCHANGED <<userVars, lockVars>>

\* What the callers know of the store after a load returned Ok: the entities
\* of a file that save wrote, over those already there.
origin_after_load(label) ==
    IF label \in DOMAIN saved /\ saved[label].origin.known /\ origin.known
    THEN [known |-> TRUE,
          map |-> [k \in (DOMAIN origin.map) \cup (DOMAIN saved[label].origin.map) |->
                      IF k \in DOMAIN saved[label].origin.map
                      THEN saved[label].origin.map[k] ELSE origin.map[k]]]
    ELSE [known |-> FALSE, map |-> EmptyMap]

\* load (lines 161-171)
KsLoad ==
    /\ ksPc = "idle"
    /\ \E label \in Labels, password \in Passwords :
         /\ ksCur' = [NoKsCur EXCEPT !.label = label, !.password = password,
                                      !.fresh = values = EmptyMap]
         /\ \E out \in load(values, files, label, password) :
              /\ values' = out.values
              /\ origin' = IF out.status = "ok" THEN origin_after_load(label)
                           ELSE origin
              /\ KsReturn("load", out.status, out.error)
    /\ UNCHANGED <<files, saved>>
    /\ UNCHANGED <<userVars, lockVars>>

\* Something else writes the key store file.
FileReplaced ==
    /\ ksPc = "idle"
    /\ \E label \in Labels, f \in ForeignFiles :
         /\ files' = MapInsert(files, label, f)
         /\ saved' = MapRemove(saved, label)
    /\ UNCHANGED <<values, origin, ksPc, ksCur, ksResult>>
    /\ UNCHANGED <<userVars, lockVars>>

NextKS ==
    \/ KsPrompt
    \/ KsNew
    \/ KsStore
    \/ KsDelete
    \/ KsSave
    \/ KsLoad
    \/ FileReplaced

SpecKS == Init /\ [][NextKS]_vars

\* ================================================ the lock of the key store
\* Every key store call as the sequence of its steps, in the order of the
\* code.  "lock_read" / "lock_write" are self.values.read() / .write(),
\* "unlock" is the end of the guard's life.
IoSteps ==
    {"create_file", "write_file", "encrypt_write", "open_file",
     "read_parse_file", "read_decrypt"}
MapReadSteps == {"get", "encode_entries"}
MapWriteSteps == {"insert", "remove", "insert_entries"}
ComputeSteps == {"serialize", "deserialize", "parse"}

\* store (lines 32-41): to_vec, then the write guard around insert.
store_steps == <<"serialize", "lock_write", "insert", "unlock">>
\* read (lines 47-57): the read guard lives to the end of the function.
read_steps == <<"lock_read", "get", "deserialize", "unlock">>
\* delete (lines 62-67)
delete_steps == <<"lock_write", "remove", "unlock">>

\* Mutant of save_to_file_steps: the loop runs over the map without the read
\* guard.
save_to_file_steps_without_guard == <<"encode_entries", "write_file">>

\* Mutant of save_to_file_steps: the read guard is bound to a variable and
\* lives to the end of the function, across the write of the file.
save_to_file_steps_writing_under_lock ==
    <<"lock_read", "encode_entries", "write_file", "unlock">>

\* save_to_file (lines 93-107): the read guard is a temporary of the for
\* loop; to_writer_pretty comes after the loop.
save_to_file_steps == <<"lock_read", "encode_entries", "unlock", "write_file">>
\* ciphered_save (lines 75-91): the same loop, then cocoon.dump.
ciphered_save_steps == <<"lock_read", "encode_entries", "unlock", "encrypt_write">>
\* save (lines 109-119)
save_steps(password) ==
    <<"create_file">> \o (IF password = None THEN save_to_file_steps
                          ELSE ciphered_save_steps)
\* load_from_file (lines 144-159): from_reader, then the write guard around
\* the insertion loop.
load_from_file_steps == <<"read_parse_file", "lock_write", "insert_entries", "unlock">>
\* ciphered_load (lines 121-142): cocoon.parse, from_utf8 and from_str, then
\* the write guard around the insertion loop.
ciphered_load_steps ==
    <<"read_decrypt", "parse", "lock_write", "insert_entries", "unlock">>
\* load (lines 161-171)
load_steps(password) ==
    <<"open_file">> \o (IF password = None THEN load_from_file_steps
                        ELSE ciphered_load_steps)

Steps(th) ==
    IF th.op = "store" THEN store_steps
    ELSE IF th.op = "read" THEN read_steps
    ELSE IF th.op = "delete" THEN delete_steps
    ELSE IF th.op = "save" THEN save_steps(th.password)
    ELSE IF th.op = "load" THEN load_steps(th.password)
    ELSE <<>>

\* The step thread t does next, "return" after the last one, "none" outside
\* a call.
NextStep(t) ==
    IF thr[t].op = "none" THEN "none"
    ELSE IF thr[t].at > Len(Steps(thr[t])) THEN "return"
    ELSE Steps(thr[t])[thr[t].at]

Advance(t, th) == thr' = [thr EXCEPT ![t] = [th EXCEPT !.at = @ + 1]]
\* The call ends early with an Err.
Abandon(t) == thr' = [thr EXCEPT ![t] = NoThread]

Holds(t) == t \in lock.readers \/ lock.writer = Some(t)

\* The keys and passwords the concurrent callers use.
LockKeys == {<<1>>, <<250, 251>>}
LockEntities == {<<255, 16>>}
LockPasswords == {None, Some("pw")}

\* A thread enters a key store call.
LkCall ==
    \E t \in Threads :
       /\ thr[t].op = "none"
       /\ \E op \in {"store", "read", "delete", "save", "load"}, k \in LockKeys,
             v \in LockEntities, password \in LockPasswords, label \in Labels :
            thr' = [thr EXCEPT ![t] =
                      IF op = "store"
                      THEN [NoThread EXCEPT !.op = op, !.at = 1, !.key = Some(k),
                                            !.value = Some(v)]
                      ELSE IF op \in {"read", "delete"}
                      THEN [NoThread EXCEPT !.op = op, !.at = 1, !.key = Some(k)]
                      ELSE [NoThread EXCEPT !.op = op, !.at = 1, !.label = label,
                                            !.password = password]]
       /\ UNCHANGED <<lock, values, files>>
       /\ UNCHANGED <<saved, origin, ksPc, ksCur, ksResult>>
       /\ UNCHANGED userVars

\* self.values.read(): granted while nobody holds the lock for writing.
LkAcquireRead ==
    \E t \in Threads :
       /\ NextStep(t) = "lock_read"
       /\ lock.writer = None
       /\ lock' = [lock EXCEPT !.readers = @ \cup {t}]
       /\ Advance(t, thr[t])
       /\ UNCHANGED <<values, files>>
       /\ UNCHANGED <<saved, origin, ksPc, ksCur, ksResult>>
       /\ UNCHANGED userVars

\* self.values.write(): granted while nobody holds the lock.
LkAcquireWrite ==
    \E t \in Threads :
       /\ NextStep(t) = "lock_write"
       /\ lock.writer = None
       /\ lock.readers = {}
       /\ lock' = [lock EXCEPT !.writer = Some(t)]
       /\ Advance(t, thr[t])
       /\ UNCHANGED <<values, files>>
       /\ UNCHANGED <<saved, origin, ksPc, ksCur, ksResult>>
       /\ UNCHANGED userVars

\* The guard is dropped.
LkRelease ==
    \E t \in Threads :
       /\ NextStep(t) = "unlock"
       /\ lock' = [readers |-> lock.readers \ {t},
                   writer |-> IF lock.writer = Some(t) THEN None ELSE lock.writer]
       /\ Advance(t, thr[t])
       /\ UNCHANGED <<values, files>>
       /\ UNCHANGED <<saved, origin, ksPc, ksCur, ksResult>>
       /\ UNCHANGED userVars

\* values.get(k), or one turn of the loop over the map that fills ser_ks: the
\* loop visits the entries one after the other, in the order the HashMap
\* yields them; todo is what the iterator has not yielded yet and snap is
\* ser_ks so far.  The step after the loop is reached with the last entry.
LkMapRead ==
    \E t \in Threads :
       /\ NextStep(t) \in MapReadSteps
       /\ IF NextStep(t) = "get"
          THEN Advance(t, [thr[t] EXCEPT
                   !.bytes = IF thr[t].key[1] \in DOMAIN values
                             THEN Some(values[thr[t].key[1]]) ELSE None])
          ELSE LET th == thr[t]
                   todo == IF th.todo = None THEN DOMAIN values ELSE th.todo[1]
                   ser_ks == IF th.snap = None THEN EmptyMap ELSE th.snap[1]
               IN
               IF todo = {}
               THEN Advance(t, [th EXCEPT !.snap = Some(ser_ks), !.todo = None])
               ELSE \E key \in todo :
                       LET inserted == IF key \in DOMAIN values
                                       THEN MapInsert(ser_ks, key, values[key])
                                       ELSE ser_ks
                       IN
                       IF todo = {key}
                       THEN Advance(t, [th EXCEPT !.snap = Some(inserted),
                                                  !.todo = None])
                       ELSE thr' = [thr EXCEPT ![t] =
                                      [th EXCEPT !.snap = Some(inserted),
                                                 !.todo = Some(todo \ {key})]]
       /\ UNCHANGED <<lock, values, files>>
       /\ UNCHANGED <<saved, origin, ksPc, ksCur, ksResult>>
       /\ UNCHANGED userVars

\* values.insert, values.remove, or the insertion loop of load.
LkMapWrite ==
    \E t \in Threads :
       /\ NextStep(t) \in MapWriteSteps
       /\ IF NextStep(t) = "insert"
          THEN values' = MapInsert(values, thr[t].key[1], thr[t].bytes[1])
          ELSE IF NextStep(t) = "remove"
          THEN values' = MapRemove(values, thr[t].key[1])
          ELSE \E out \in load_entries(values, thr[t].doc[1]) : values' = out.values
       /\ Advance(t, thr[t])
       /\ UNCHANGED <<lock, files>>
       /\ UNCHANGED <<saved, origin, ksPc, ksCur, ksResult>>
       /\ UNCHANGED userVars

\* File::create (truncates the file), the write of the file with or without
\* encryption, File::open, the read of the file with or without decryption.
LkFileIo ==
    \E t \in Threads :
       LET th == thr[t]
           step == NextStep(t)
       IN
       /\ step \in IoSteps
       /\ IF step = "create_file"
          THEN /\ files' = MapInsert(files, th.label,
                               FileContent("garbage", None, "", EmptyMap))
               /\ Advance(t, th)
          ELSE IF step \in {"write_file", "encrypt_write"}
          THEN /\ files' = MapInsert(files, th.label, save(th.snap[1], th.password))
               /\ Advance(t, th)
          ELSE IF step = "open_file"
          THEN /\ files' = files
               /\ IF th.label \in DOMAIN files THEN Advance(t, th) ELSE Abandon(t)
          ELSE IF step = "read_parse_file"
          THEN /\ files' = files
               /\ IF th.label \in DOMAIN files /\ files[th.label].kind = "json"
                  THEN Advance(t, [th EXCEPT !.doc = Some(files[th.label].doc)])
                  ELSE Abandon(t)
          ELSE /\ files' = files
               /\ IF /\ th.label \in DOMAIN files
                     /\ files[th.label].kind = "cocoon"
                     /\ files[th.label].password = th.password
                  THEN Advance(t, [th EXCEPT !.doc = Some(files[th.label].doc)])
                  ELSE Abandon(t)
       /\ UNCHANGED <<lock, values>>
       /\ UNCHANGED <<saved, origin, ksPc, ksCur, ksResult>>
       /\ UNCHANGED userVars

\* serde_json::to_vec of the entity, from_slice of the bytes read, from_utf8
\* and from_str of the decrypted text.
LkCompute ==
    \E t \in Threads :
       /\ NextStep(t) \in ComputeSteps
       /\ IF NextStep(t) = "serialize"
          THEN Advance(t, [thr[t] EXCEPT !.bytes = Some(to_vec(thr[t].value[1]))])
          ELSE IF NextStep(t) = "deserialize"
          THEN Advance(t, [thr[t] EXCEPT
                   !.value = IF thr[t].bytes = None THEN None
                             ELSE from_slice(thr[t].bytes[1])])
          ELSE Advance(t, thr[t])
       /\ UNCHANGED <<lock, values, files>>
       /\ UNCHANGED <<saved, origin, ksPc, ksCur, ksResult>>
       /\ UNCHANGED userVars

\* The call returns.
LkReturn ==
    \E t \in Threads :
       /\ NextStep(t) = "return"
       /\ thr' = [thr EXCEPT ![t] = NoThread]
       /\ UNCHANGED <<lock, values, files>>
       /\ UNCHANGED <<saved, origin, ksPc, ksCur, ksResult>>
       /\ UNCHANGED userVars

NextLock ==
    \/ LkCall
    \/ LkAcquireRead
    \/ LkAcquireWrite
    \/ LkRelease
    \/ LkMapRead
    \/ LkMapWrite
    \/ LkFileIo
    \/ LkCompute
    \/ LkReturn

SpecLock == Init /\ [][NextLock]_vars

\* ------------------------------------------------------------------ claims
\* The operation in progress handed its commit for group gid to the transport
\* and the transport accepted it.
CommitDelivered(gid) ==
    /\ ~transport.failed
    /\ Len(transport.delivered) >= 1
    /\ transport.delivered[1].what = "commit"
    /\ transport.delivered[1].gid = gid

\* C1: in invite the commit is delivered successfully, then merged, then the
\* welcome is sent; in remove the commit is delivered successfully before the
\* merge; without a successful delivery the staged commit is never merged.
C1_DeliverThenMergeThenWelcome ==
    /\ pc = "invite_merge" =>
          /\ CommitDelivered(cur.gid)
          /\ Len(transport.delivered) = 1
          /\ groups[cur.gid].mls_group.pending = AddCommit(cur.id)
    /\ pc = "invite_welcome" =>
          /\ CommitDelivered(cur.gid)
          /\ Len(transport.delivered) = 1
          /\ groups[cur.gid].mls_group.pending = NoCommit
          /\ cur.id \in groups[cur.gid].mls_group.members
    /\ (pc = "returned" /\ result = Result("invite", "ok", "")) =>
          /\ CommitDelivered(cur.gid)
          /\ Len(transport.delivered) = 2
          /\ transport.delivered[2] = Delivery("welcome", cur.gid, {cur.id})
          /\ groups[cur.gid].mls_group.pending = NoCommit
    /\ pc = "remove_merge" =>
          /\ CommitDelivered(cur.gid)
          /\ groups[cur.gid].mls_group.pending = RemoveCommit(cur.who)
    /\ (pc = "returned" /\ result = Result("remove", "ok", "")) =>
          /\ CommitDelivered(cur.gid)
          /\ groups[cur.gid].mls_group.pending = NoCommit
          /\ cur.who \notin groups[cur.gid].mls_group.members
    /\ (result.op \in {"invite", "remove"} /\ result.error = "send_msg") =>
          /\ transport.delivered = <<>>
          /\ groups[cur.gid].mls_group.pending # NoCommit

\* C1 witness: with alice and bob in g1, carol was invited: the commit went to
\* bob, then the welcome to carol.
C1_Witness ==
    /\ pc = "returned"
    /\ result = Result("invite", "ok", "")
    /\ transport.delivered = <<Delivery("commit", "g1", {"bob"}),
                               Delivery("welcome", "g1", {"carol"})>>
    /\ groups["g1"].mls_group.members = {"alice", "bob", "carol"}

\* C2: an invite or remove whose delivery fails returns an error and leaves
\* every group session exactly as it was before the call (no staged commit).
C2_FailedDeliveryLeavesGroupAsBefore ==
    [][(/\ pc = "idle"
        /\ result'.op \in {"invite", "remove"}
        /\ result'.status = "err"
        /\ transport'.failed)
       => groups' = groups]_vars

\* C3: a create or join on a group id that already has a session fails and
\* leaves the stored sessions as they were.
C3_DuplicateDoesNotOverwrite ==
    [][(/\ pc \in {"idle", "update_loop"}
        /\ result'.error \in {"Overrode the group", "Group existed already"})
       => groups' = groups]_vars

\* The step of update that drops a protocol message (unknown group, or the
\* engine cannot process it).
IsDropStep ==
    /\ pc = "update_loop"
    /\ Len(dispatched') = Len(dispatched) + 1
    /\ dispatched'[Len(dispatched')].what = "dropped"

\* The texts update has to return: the application messages of the log whose
\* group's name matches the filter, in order.
AppTexts(log, filter) ==
    LET sel == SelectSeq(log, LAMBDA e :
                   /\ e.what = "application"
                   /\ (filter = None \/ filter[1] = groups[e.gid].group_name))
    IN  [i \in 1..Len(sel) |-> sel[i].text]

\* C4: a protocol message of an unknown group, or one the engine cannot
\* process, is dropped without changing a group or the collected messages, the
\* loop goes on with the next artifact, and update returns the messages of the
\* others.
C4_DroppedMessageIsIsolated ==
    /\ [][IsDropStep =>
            /\ groups' = groups
            /\ messages_out' = messages_out
            /\ pc' = "update_loop"
            /\ result' = result
            /\ batch' = batch - 1]_vars
    /\ []((pc = "returned" /\ result = Result("update", "ok", "")
              /\ cur.filter = None)
            => messages_out = AppTexts(dispatched, None))

\* C4 witness: a batch of three whose second message was dropped; the first
\* and the third were processed and returned.
C4_Witness ==
    /\ pc = "returned"
    /\ result = Result("update", "ok", "")
    /\ Len(dispatched) = 3
    /\ dispatched[1].what = "application"
    /\ dispatched[2].what = "dropped"
    /\ dispatched[3].what = "application"
    /\ messages_out = <<dispatched[1].text, dispatched[3].text>>

\* C5: a failure on one artifact of the batch (a welcome whose join fails
\* included) does not end update: every artifact is dispatched, the contacts
\* are refreshed, and update fails only when the batch or the client list
\* cannot be fetched.
C5_ArtifactFailureIsIsolated ==
    (pc = "returned" /\ result.op = "update") =>
        /\ batch = 0
        /\ result.status = "err" => result.error \in {"recv_msgs", "list_clients"}

\* C8: a transport failure inside an operation is returned as an error.
C8_TransportFailureIsReturned ==
    (pc = "returned" /\ transport.failed) => result.status = "err"

\* C9: remove of a name that is no member of the group returns an error,
\* delivers nothing and leaves the groups unchanged; the client keeps running.
C9_UnknownMemberIsAnError ==
    [][(/\ pc = "idle"
        /\ result'.op = "remove"
        /\ cur'.gid \in DOMAIN groups
        /\ cur'.who \notin groups[cur'.gid].mls_group.members)
       => (/\ pc' = "returned"
           /\ result'.status = "err"
           /\ groups' = groups
           /\ transport'.delivered = <<>>)]_vars

\* The step of update that processes an application message.
IsAppStep ==
    /\ pc = "update_loop"
    /\ Len(dispatched') = Len(dispatched) + 1
    /\ dispatched'[Len(dispatched')].what = "application"

\* C10: update returns the processed application messages whose group name
\* matches the filter (all without filter), in arrival order; each processed
\* application message is appended to the conversation of its group, filter or
\* not, and to no other.
C10_UpdateReturnsFilteredInOrder ==
    /\ []((pc = "returned" /\ result = Result("update", "ok", ""))
            => messages_out = AppTexts(dispatched, cur.filter))
    /\ [][IsAppStep =>
            LET e == dispatched'[Len(dispatched')]
            IN  /\ e.gid \in DOMAIN groups
                /\ groups'[e.gid].conversation =
                       Append(groups[e.gid].conversation, e.text)
                /\ \A g \in DOMAIN groups \ {e.gid} : groups'[g] = groups[g]
                /\ DOMAIN groups' = DOMAIN groups]_vars

\* C10 witness: with the filter on g1, a message of g2 and then one of g1 were
\* processed: only the second is returned, both are in their conversations.
C10_Witness ==
    /\ pc = "returned"
    /\ result = Result("update", "ok", "")
    /\ cur.filter = Some("g1")
    /\ dispatched = <<Entry("application", "g2", "hi"),
                      Entry("application", "g1", "yo")>>
    /\ messages_out = <<"yo">>
    /\ groups["g2"].conversation = <<"hi">>
    /\ groups["g1"].conversation = <<"yo">>

\* A step in which load returns.
IsLoadStep == ksPc = "idle" /\ ksResult'.op = "load"

\* C6: a load that fails returns an error and leaves the in-memory store
\* exactly as it was before the call: no entry of the file is applied.
C6_FailedLoadLeavesStoreUntouched ==
    [][(IsLoadStep /\ ksResult'.status # "ok")
          => (ksResult'.status = "err" /\ values' = values)]_vars

\* C7: round trip.  A load into an empty store, of the file that save wrote
\* under the same label with the same password option, succeeds and gives a
\* store holding exactly what the saved store held: read(key) is the original
\* entity for every stored key and nothing for every other key.
C7_SaveLoadRoundTrip ==
    [][(/\ IsLoadStep
        /\ values = EmptyMap
        /\ ksCur'.label \in DOMAIN saved
        /\ saved[ksCur'.label].password = ksCur'.password)
          => LET snap == saved[ksCur'.label] IN
             /\ ksResult'.status = "ok"
             /\ values' = snap.values
             /\ snap.origin.known =>
                  \A k \in Keys :
                     read(values', k) =
                        IF k \in DOMAIN snap.origin.map
                        THEN Some(snap.origin.map[k]) ELSE None]_vars

\* C7 witness: a password-protected file holding two entries (keys of one and
\* of two bytes) has been loaded into an empty store and both are read back.
C7_Witness ==
    /\ ksPc = "returned"
    /\ ksResult = Result("load", "ok", "")
    /\ ksCur.fresh
    /\ ksCur.password = Some("pw")
    /\ ksCur.label \in DOMAIN saved
    /\ saved[ksCur.label].password = ksCur.password
    /\ DOMAIN saved[ksCur.label].values = {<<1>>, <<250, 251>>}
    /\ read(values, <<1>>) = Some(<<255, 16>>)
    /\ read(values, <<250, 251>>) = Some(<<7>>)
    /\ read(values, <<77, 97, 110>>) = None

\* A step in which send_msg, invite or remove runs on an existing group up to
\* (and including) its delivery to the Backend.
IsDeliveryStep ==
    /\ pc = "idle"
    /\ result'.op \in {"send_msg", "invite", "remove"}
    /\ cur'.gid \in DOMAIN groups

\* The current members other than ourselves, told by the signature key.
OtherMembers(gid) ==
    {m \in groups[gid].mls_group.members : signature_key(m) # signature_key(Me)}

\* C11: what send, invite and remove deliver is addressed to exactly the
\* current members whose signature key is not ours, each by its contact's id,
\* never to the local user; with a member that has no contact the operation
\* stops without delivering anything and without returning success.
C11_RecipientsAreTheOtherMembers ==
    [][IsDeliveryStep =>
         /\ \A i \in 1..Len(transport'.delivered) :
               /\ OtherMembers(cur'.gid) \subseteq DOMAIN contacts
               /\ transport'.delivered[i].to =
                      {contacts[m].id : m \in OtherMembers(cur'.gid)}
               /\ Me \notin transport'.delivered[i].to
         /\ ~(OtherMembers(cur'.gid) \subseteq DOMAIN contacts) =>
               /\ transport'.delivered = <<>>
               /\ result'.status \in {"err", "panic"}]_vars

\* C11 witness: a message was delivered to the two other members of the group.
C11_Witness ==
    /\ pc = "returned"
    /\ result = Result("send_msg", "ok", "")
    /\ Len(transport.delivered) = 1
    /\ transport.delivered[1].to = {"bob", "carol"}
    /\ groups[cur.gid].mls_group.members = {Me, "bob", "carol"}

\* seq1 is a prefix of seq2.
IsPrefix(seq1, seq2) ==
    /\ Len(seq1) <= Len(seq2)
    /\ SubSeq(seq2, 1, Len(seq1)) = seq1

\* C12: the conversation log of every existing group is append-only: after
\* every step of every operation the log before is a prefix of the log after,
\* and it grows only in the message-processing path of update.
C12_ConversationIsAppendOnly ==
    [][\A gid \in DOMAIN groups :
          /\ gid \in DOMAIN groups'
          /\ IsPrefix(groups[gid].conversation, groups'[gid].conversation)
          /\ groups'[gid].conversation # groups[gid].conversation
                => (pc = "update_loop" /\ result'.op = "update")]_vars

\* C13: an invite is never left half-applied; in particular, when sending the
\* welcome fails, the local group has not advanced to the membership that
\* contains the invitee: it is as it was before the attempt.  (The commit went
\* to the members of before the attempt, so these are ourselves and the
\* recipients of the first delivery.)
C13_InviteIsNeverHalfApplied ==
    (/\ result.op = "invite"
     /\ pc \in {"returned", "crashed"}
     /\ result.error = "Error sending Welcome message")
       => /\ groups[cur.gid].mls_group.members =
                 {Me} \cup transport.delivered[1].to
          /\ groups[cur.gid].mls_group.pending = NoCommit

\* A step in which send_msg runs.
IsSendStep == pc = "idle" /\ result'.op = "send_msg"

\* C14: send to a group id without session fails and delivers nothing; a
\* successful send delivers one artifact, addressed to the group's recipients,
\* and leaves the conversation log of every group as it was.
C14_SendDeliversOnceAndKeepsTheLog ==
    [][IsSendStep =>
         /\ cur'.gid \notin DOMAIN groups =>
               (result'.status = "err" /\ transport'.delivered = <<>>)
         /\ result'.status = "ok" =>
               /\ cur'.gid \in DOMAIN groups
               /\ Len(transport'.delivered) = 1
               /\ transport'.delivered[1].what = "application"
               /\ transport'.delivered[1].gid = cur'.gid
               /\ transport'.delivered[1].to =
                      {contacts[m].id : m \in OtherMembers(cur'.gid)}
         /\ DOMAIN groups' = DOMAIN groups
         /\ \A g \in DOMAIN groups :
               groups'[g].conversation = groups[g].conversation]_vars

\* The last entry of the list for id, when the list has one.
LastListed(clients, id) ==
    LET is == {i \in 1..Len(clients) : clients[i].id = id}
    IN  IF is = {} THEN None
        ELSE Some(clients[CHOOSE i \in is : \A j \in is : j <= i])

\* C15: the contact refresh is idempotent: on every directory and for every
\* client list, refreshing twice with the list gives the directory that
\* refreshing once gives (same keys, same username, id and key material); an
\* entry whose id is listed is replaced wholesale by the listed one, and the
\* others stay as they are.
C15_RefreshIsIdempotent ==
    \A clients \in ClientLists :
       LET once == refresh_contacts(contacts, clients)
           listed == {clients[i].id : i \in 1..Len(clients)} \ {Me}
       IN  /\ refresh_contacts(once, clients) = once
           /\ DOMAIN once = (DOMAIN contacts) \cup listed
           /\ \A id \in DOMAIN once :
                 once[id] =
                    IF id \in listed
                    THEN LET c == LastListed(clients, id)[1]
                         IN  [username |-> c.client_name, id |-> c.id,
                              public_keys |-> c.key_packages]
                    ELSE contacts[id]

\* C15 witness: an update has refreshed a directory that holds both contacts
\* under names and key material of their own.
C15_Witness ==
    /\ pc = "returned"
    /\ result = Result("update", "ok", "")
    /\ DOMAIN contacts = {"bob", "carol"}
    /\ contacts["bob"] = [username |-> "robert", id |-> "bob", public_keys |-> 3]
    /\ contacts["carol"] = [username |-> "bob", id |-> "carol", public_keys |-> 2]

\* C16: the directory never holds an entry keyed by the local identity, and
\* no step of any operation removes a contact: the keys after are a superset
\* of the keys before.
C16_ContactsOnlyGrowWithoutSelf ==
    /\ [](Me \notin DOMAIN contacts)
    /\ [][DOMAIN contacts \subseteq DOMAIN contacts']_vars

\* C16 witness: an update that processed messages has refreshed the directory
\* and both other clients are contacts.
C16_Witness ==
    /\ pc = "returned"
    /\ result = Result("update", "ok", "")
    /\ DOMAIN contacts = {"bob", "carol"}
    /\ batch = 0
    /\ Len(dispatched) > 0

\* C17: the key store is a map under store and delete.  A store of v under k
\* that succeeds makes read(k) return v and leaves one entry for k; a store
\* that fails changes nothing; a delete of k succeeds, takes the entry of k
\* away if there is one and changes nothing otherwise; neither touches the
\* entry of another key.
C17_KeyStoreIsAMap ==
    [][(ksPc = "idle" /\ ksResult'.op \in {"store", "delete"}) =>
         LET k == ksCur'.key[1] IN
         /\ \A k2 \in Keys \ {k} :
               /\ k2 \in DOMAIN values' <=> k2 \in DOMAIN values
               /\ k2 \in DOMAIN values => values'[k2] = values[k2]
               /\ read(values', k2) = read(values, k2)
         /\ DOMAIN values' \subseteq Keys
         /\ (ksResult'.op = "store" /\ ksResult'.status = "ok") =>
               /\ read(values', k) = ksCur'.value
               /\ Cardinality(DOMAIN values') = Cardinality(DOMAIN values \cup {k})
         /\ (ksResult'.op = "store" /\ ksResult'.status # "ok") => values' = values
         /\ ksResult'.op = "delete" =>
               /\ ksResult'.status = "ok"
               /\ read(values', k) = None
               /\ k \notin DOMAIN values'
               /\ k \notin DOMAIN values => values' = values]_vars

\* C17 witness: a second store under a key that held another entity has
\* returned, next to the entry of another key.
C17_Witness ==
    /\ ksPc = "returned"
    /\ ksResult = Result("store", "ok", "")
    /\ ksCur.key = Some(<<1>>)
    /\ ksCur.value = Some(<<255, 16>>)
    /\ read(values, <<1>>) = Some(<<255, 16>>)
    /\ read(values, <<250, 251>>) = Some(<<7>>)
    /\ \E label \in DOMAIN saved :
          /\ <<1>> \in DOMAIN saved[label].values
          /\ read(saved[label].values, <<1>>) = Some(<<7>>)

\* C19: read_msgs of a known group returns the most recent messages of its
\* log, at most 100, in arrival order: of 150 messages the 51st to the 150th,
\* of fewer than 100 all of them; of an unknown group it returns the error
\* "Unknown group".
C19_ReadReturnsTheLast100 ==
    [][(pc = "idle" /\ result'.op = "read_msgs") =>
         IF cur'.gid \notin DOMAIN groups
         THEN /\ result' = Result("read_msgs", "err", "Unknown group")
              /\ read_out' = None
         ELSE LET log == groups[cur'.gid].conversation
                  n == Len(log)
              IN  /\ result'.status = "ok"
                  /\ read_out' # None
                  /\ Len(read_out'[1]) = IF n < 100 THEN n ELSE 100
                  /\ \A i \in 1..Len(read_out'[1]) :
                        read_out'[1][i] = log[n - Len(read_out'[1]) + i]
                  /\ n = 150 => read_out'[1] = [i \in 1..100 |-> log[50 + i]]
                  /\ n < 100 => read_out'[1] = log]_vars

\* C19 witness: a log of 150 messages has been read and the messages 51 to
\* 150 came back.
C19_Witness ==
    /\ pc = "returned"
    /\ result = Result("read_msgs", "ok", "")
    /\ Len(groups[cur.gid].conversation) = 150
    /\ Len(read_out[1]) = 100
    /\ read_out[1][1] = 51
    /\ read_out[1][100] = 150

\* C20: the commit of invite and remove goes to the members as they are before
\* the commit is merged: the invited member, not a member yet, is not among
\* the recipients of the commit that adds it, and the removed member, having
\* a contact, is among the recipients of the commit that removes it.
C20_CommitGoesToMembersBeforeMerge ==
    [][(/\ pc = "idle"
        /\ result'.op \in {"invite", "remove"}
        /\ transport'.delivered # <<>>)
          => LET to == transport'.delivered[1].to
                 before == groups[cur'.gid].mls_group.members
             IN  /\ pc' \in {"invite_merge", "remove_merge"}
                 /\ groups'[cur'.gid].mls_group.members = before
                 /\ to = {contacts[m].id : m \in before \ {Me}}
                 /\ (result'.op = "invite" /\ cur'.id \notin before)
                       => cur'.id \notin to
                 /\ result'.op = "remove" => contacts[cur'.who].id \in to]_vars

\* C20 witness: the commit that removes bob has been delivered to bob and
\* carol and is about to be merged.
C20_Witness ==
    /\ pc = "remove_merge"
    /\ result.op = "remove"
    /\ cur.who = "bob"
    /\ groups[cur.gid].mls_group.pending = RemoveCommit("bob")
    /\ Len(transport.delivered) = 1
    /\ transport.delivered[1].to = {"bob", "carol"}

\* C18: in the key store every read of the map is done holding the lock
\* (shared or exclusive) and every mutation holding it exclusively; no call
\* holds the lock while it does file I/O, encryption or decryption, so a
\* caller waiting for the lock never waits for a file write or a key
\* derivation; the exclusive lock excludes every other holder, and a call
\* that has returned holds nothing.
C18_NoFileIoUnderTheLock ==
    /\ \A t \in Threads :
          /\ NextStep(t) \in IoSteps => ~Holds(t)
          /\ NextStep(t) \in MapReadSteps => Holds(t)
          /\ NextStep(t) \in MapWriteSteps => lock.writer = Some(t)
          /\ NextStep(t) \in {"none", "return"} => ~Holds(t)
          /\ \A u \in Threads \ {t} :
                (NextStep(t) \in {"lock_read", "lock_write"} /\ Holds(u))
                   => NextStep(u) \notin IoSteps
    /\ lock.writer # None => lock.readers = {}
    /\ lock.writer # None => lock.writer[1] \in Threads

\* C18 witness: one thread is about to write the encrypted file, holding
\* nothing, while the other holds the lock exclusively for its insert.
C18_Witness ==
    /\ NextStep("t1") = "encrypt_write"
    /\ ~Holds("t1")
    /\ NextStep("t2") = "insert"
    /\ lock.writer = Some("t2")
    /\ thr["t1"].snap # None

\* C21: an invite that returns an error because the contact name or the group
\* id is unknown has no side effect: no key package is consumed at the
\* directory service, nothing is sent and no group session changes.
C21_UnknownNameOrGroupHasNoEffect ==
    [][(/\ pc = "idle"
        /\ result'.op = "invite"
        /\ result'.error \in {"No contact", "No group"})
          => /\ result'.status = "err"
             /\ transport'.consumed = {}
             /\ transport'.delivered = <<>>
             /\ groups' = groups]_vars

\* C22: with store and delete calls running concurrently with save, what save
\* writes is the content of the store at one single instant of the save.  No
\* step changes the store while the loop of a save is between two entries;
\* when the loop ends, what it gathered is the content of the store at that
\* instant; save keeps it unchanged afterwards and it is what the write puts
\* into the file.
C22_SaveWritesOneSnapshot ==
    [][\A t \in Threads :
          /\ thr[t].todo # None => values' = values
          /\ (NextStep(t) = "encode_entries" /\ thr'[t].at = thr[t].at + 1)
                => /\ thr'[t].snap = Some(values)
                   /\ values' = values
          /\ (/\ thr[t].op = "save"
              /\ thr[t].snap # None
              /\ NextStep(t) # "encode_entries"
              /\ thr'[t].op = "save") => thr'[t].snap = thr[t].snap
          /\ (NextStep(t) \in {"write_file", "encrypt_write"} /\ thr'[t] # thr[t])
                => /\ thr[t].snap # None
                   /\ files'[thr[t].label] = save(thr[t].snap[1], thr[t].password)]_vars

\* C22 witness: a save has written the two entries the store held when its
\* loop ended, while a delete of the other thread, which had to wait for the
\* end of the loop, has since taken one of them away.
C22_Witness ==
    /\ thr["t1"].op = "save"
    /\ NextStep("t1") = "return"
    /\ thr["t1"].snap # None
    /\ DOMAIN thr["t1"].snap[1] = LockKeys
    /\ files[thr["t1"].label] = save(thr["t1"].snap[1], thr["t1"].password)
    /\ thr["t2"].op = "delete"
    /\ NextStep("t2") = "unlock"
    /\ DOMAIN values = {<<250, 251>>}

\* C23: a successful load into a store that already holds entries merges and
\* does not replace.  Afterwards the store holds the keys it held before and
\* the keys of the file; a key of the file has the file's value, also when
\* the store held another value under it; a key that was only in memory is
\* still there and read returns the same entity as before.
C23_LoadMerges ==
    [][(ksPc = "idle" /\ ksResult'.op = "load" /\ ksResult'.status = "ok") =>
         /\ ksCur'.label \in DOMAIN saved
         /\ LET file == saved[ksCur'.label].values IN
            /\ DOMAIN values' = (DOMAIN values) \cup (DOMAIN file)
            /\ \A k \in DOMAIN file : values'[k] = file[k]
            /\ \A k \in (DOMAIN values) \ (DOMAIN file) :
                  /\ values'[k] = values[k]
                  /\ read(values', k) = read(values, k)
                  /\ read(values', k) # None]_vars

\* C23 witness: a load into a store that held entries has returned Ok; the
\* file held one key, which has the file's value, next to a key that was only
\* in memory.
C23_Witness ==
    /\ ksPc = "returned"
    /\ ksResult = Result("load", "ok", "")
    /\ ~ksCur.fresh
    /\ ksCur.label \in DOMAIN saved
    /\ DOMAIN saved[ksCur.label].values = {<<1>>}
    /\ DOMAIN values = {<<1>>, <<250, 251>>}
    /\ values[<<1>>] = saved[ksCur.label].values[<<1>>]
    /\ read(values, <<250, 251>>) = Some(<<255, 16>>)

====
